---- MODULE Spec2Model ----
(***************************************************************************)
(* AnnotatePro (src/streamlit_app.py): the campaign registry kept in       *)
(* st.session_state, the annotation queue and the Submit & Sync handler.   *)
(*                                                                         *)
(* st.session_state is per browser session: every session has its own      *)
(* db, active_cid and annotator.  What sessions share is the external SQL  *)
(* database (ext), read by Connect & Fetch and replaced by Submit & Sync.   *)
(*                                                                         *)
(* A cell of a DataFrame is None (<<>>) or a value v (<<v>>).  Column       *)
(* dtypes are not modelled: a df.at write always succeeds, as it does on   *)
(* the object columns initialize_df adds.  A str is a sequence of          *)
(* one-character strings where the code looks inside it (labels.split,     *)
(* strip).  DataFrame indices are the RangeIndex 0..n-1.                   *)
(* config["created_at"] is written once and never read; it is left out,    *)
(* as is load_demo, which is Create CSV Campaign on a fixed table.         *)
(***************************************************************************)
EXTENDS Integers, Sequences, FiniteSets, TLC

VARIABLES db, active_cid, annotator, ext

vars == <<db, active_cid, annotator, ext>>

\* ---------------------------------------------------------------- values

None == <<>>

Some(v) == <<v>>

isna(cell) == cell = None

notna(cell) == cell # None

\* Python's None for active_cid (no campaign is ever registered under it).
NoCid == "None"

\* The five annotation columns (the list of line 35, again at line 167).
AnnCols == {"label", "confidence", "notes", "annotated_by", "annotated_at"}

Range(f) == {f[i] : i \in DOMAIN f}

\* ---------------------------------------------------------------- bounds

\* Largest number of rows of a source table.
MaxRows == 2

\* Longest label spec the parsing is checked on, beyond the ones typed.
MaxSpecLen == 3

\* Browser sessions, each with its own st.session_state.
Sessions == {1, 2}

\* ---------------------------------------------------------- str helpers

\* str.strip(): whitespace removed at both ends.
RECURSIVE lstrip(_)
lstrip(s) == IF s # <<>> /\ Head(s) = " " THEN lstrip(Tail(s)) ELSE s

RECURSIVE rstrip(_)
rstrip(s) ==
    IF s # <<>> /\ s[Len(s)] = " " THEN rstrip(SubSeq(s, 1, Len(s) - 1)) ELSE s

strip(s) == rstrip(lstrip(s))

\* str.split(","): the pieces between the commas; "" gives [""].
RECURSIVE split(_)
split(s) ==
    IF \A k \in 1..Len(s) : s[k] # ","
    THEN <<s>>
    ELSE LET k == CHOOSE j \in 1..Len(s) :
                      s[j] = "," /\ \A m \in 1..(j - 1) : s[m] # ","
         IN  <<SubSeq(s, 1, k - 1)>> \o split(SubSeq(s, k + 1, Len(s)))

\* Mutant: empty labels dropped ([l.strip() for ... if l.strip()]).
ParseLabels_DropEmpty(labels) ==
    LET parts == split(labels)
    IN  SelectSeq([k \in 1..Len(parts) |-> strip(parts[k])],
                  LAMBDA l : l # <<>>)

\* [l.strip() for l in labels.split(",")]
ParseLabels(labels) ==
    LET parts == split(labels) IN [k \in 1..Len(parts) |-> strip(parts[k])]

\* ------------------------------------------------------------ DataFrames

NRows(df) == Cardinality(DOMAIN df.rows)

\* initialize_df: a copy of df with every missing annotation column added,
\* None in every row; the columns the source carries are kept as they are.
initialize_df(df, labels, engine, table_name) ==
    LET cols == df.columns \cup AnnCols
        out  == [columns |-> cols,
                 rows    |-> [i \in DOMAIN df.rows |->
                                [c \in cols |-> IF c \in df.columns
                                                THEN df.rows[i][c]
                                                ELSE None]]]
    IN  [df         |-> out,
         labels     |-> ParseLabels(labels),
         engine     |-> engine,
         table_name |-> table_name]

\* queue = df[df["label"].isna()]: the index of the filtered frame, in order.
RECURSIVE QueueFrom(_, _)
QueueFrom(df, i) ==
    IF i >= NRows(df) THEN <<>>
    ELSE (IF isna(df.rows[i]["label"]) THEN <<i>> ELSE <<>>)
         \o QueueFrom(df, i + 1)

queue(df) == QueueFrom(df, 0)

\* Mutant: the last pending record instead of the first (queue.index[-1]).
idx_Last(df) == queue(df)[Len(queue(df))]

\* idx = queue.index[0]
idx(df) == Head(queue(df))

\* Stats calculation.
total(df) == NRows(df)

\* Mutant: the wrong column counted (df["confidence"].notna().sum()).
done_ByConfidence(df) ==
    Cardinality({i \in DOMAIN df.rows : notna(df.rows[i]["confidence"])})

done(df) == Cardinality({i \in DOMAIN df.rows : notna(df.rows[i]["label"])})

remaining(df) == total(df) - done(df)

\* Mutant: the annotator written to the whole column
\* (df["annotated_by"] = ... instead of df.at[idx, "annotated_by"] = ...).
ApplyAnnotation_WholeColumn(df, i, new_label, new_conf, new_notes, who, now) ==
    [df EXCEPT !.rows = [j \in DOMAIN df.rows |->
        IF j = i
        THEN [df.rows[j] EXCEPT !["label"]        = Some(new_label),
                                !["confidence"]   = Some(new_conf),
                                !["notes"]        = Some(new_notes),
                                !["annotated_by"] = Some(who),
                                !["annotated_at"] = Some(now)]
        ELSE [df.rows[j] EXCEPT !["annotated_by"] = Some(who)]]]

\* Mutant: the handler without its last write (annotated_at).
ApplyAnnotation_NoStamp(df, i, new_label, new_conf, new_notes, who, now) ==
    [df EXCEPT !.rows[i]["label"]        = Some(new_label),
               !.rows[i]["confidence"]   = Some(new_conf),
               !.rows[i]["notes"]        = Some(new_notes),
               !.rows[i]["annotated_by"] = Some(who)]

\* The five df.at[idx, col] = ... writes of the Submit handler.
ApplyAnnotation(df, i, new_label, new_conf, new_notes, who, now) ==
    [df EXCEPT !.rows[i]["label"]        = Some(new_label),
               !.rows[i]["confidence"]   = Some(new_conf),
               !.rows[i]["notes"]        = Some(new_notes),
               !.rows[i]["annotated_by"] = Some(who),
               !.rows[i]["annotated_at"] = Some(now)]

\* Mutant: rows the external table already holds annotated are kept
\* (an upsert of the pending rows instead of if_exists="replace").
to_sql_KeepAnnotated(df, table_name, ok) ==
    IF ok
    THEN [t \in DOMAIN ext \cup {table_name} |->
            IF t # table_name THEN ext[t]
            ELSE IF t \notin DOMAIN ext \/ ext[t].columns # df.columns THEN df
            ELSE [df EXCEPT !.rows = [j \in DOMAIN df.rows |->
                    IF j \in DOMAIN ext[t].rows /\ notna(ext[t].rows[j]["label"])
                    THEN ext[t].rows[j] ELSE df.rows[j]]]]
    ELSE ext

\* df.to_sql(table_name, engine, if_exists="replace", index=False): the
\* external table becomes the whole frame (ok), or the call raises.
to_sql(df, table_name, ok) ==
    IF ok THEN [t \in DOMAIN ext \cup {table_name} |->
                  IF t = table_name THEN df ELSE ext[t]]
    ELSE ext

\* ---------------------------------------------------------------- inputs

\* A source table without annotation columns: one payload column, n rows.
Plain(n) ==
    [columns |-> {"ID"},
     rows    |-> [i \in 0..(n - 1) |-> [c \in {"ID"} |-> Some(i + 1)]]]

\* A source table that already carries a "label" column (row 0 filled in).
Legacy ==
    [columns |-> {"Text", "label"},
     rows    |-> [i \in 0..1 |->
                    [c \in {"Text", "label"} |->
                       IF c = "Text" THEN Some(i + 1)
                       ELSE IF i = 0 THEN Some(<<"X">>) ELSE None]]]

\* What st.file_uploader / pd.read_csv can hand to Create CSV Campaign.
CsvFiles == {Plain(0), Plain(MaxRows), Legacy}

\* What the external database can hold in a table before any sync.
SqlTables == {Plain(MaxRows), Legacy}

\* Tables of the external database, and a name it does not have.
TableNames == {"t"}

MissingTables == {"nope"}

\* Project names typed into "Project Name".
ProjectNames == {"p"}

\* Label specs typed into "SQL Labels" / "CSV Labels": "" and " A,B ".
LabelSpecs == {<<>>, <<" ", "A", ",", "B", " ">>}

\* st.slider("Confidence", 1, 5, 3), left at its default.
ConfDefault == 3

Confidences == {ConfDefault}

\* st.text_area("Notes"): left empty, or filled in.
NotesInputs == {""}

\* datetime.now() at the commit.
Times == {"09:00"}

\* ------------------------------------------------------------- registry

\* Mutant: the registry is replaced (db = {name: config}).
Put_ReplaceRegistry(d, name, config) == [c \in {name} |-> config]

\* Mutant: an existing entry is kept (db.setdefault(name, config)).
Put_KeepExisting(d, name, config) ==
    [c \in DOMAIN d \cup {name} |-> IF c \in DOMAIN d THEN d[c] ELSE config]

\* st.session_state.db[name] = config
Put(d, name, config) ==
    [c \in DOMAIN d \cup {name} |-> IF c = name THEN config ELSE d[c]]

\* The script's view after line 116-117, for a session with a campaign.
proj(s) == db[s][active_cid[s]]

\* ----------------------------------------------------------------- Init

Init ==
    /\ db = [s \in Sessions |-> <<>>]
    /\ active_cid = [s \in Sessions |-> NoCid]
    /\ annotator = [s \in Sessions |-> ""]
    /\ ext \in [TableNames -> SqlTables]

\* -------------------------------------------------------------- actions

\* Line 64: the Annotator ID text input.
SetAnnotator(s, a) ==
    /\ annotator[s] # a
    /\ annotator' = [annotator EXCEPT ![s] = a]
    /\ UNCHANGED <<db, active_cid, ext>>

\* Lines 68-72: the Active Campaign selectbox, shown once db is not empty.
SelectCampaign(s, c) ==
    /\ DOMAIN db[s] # {}
    /\ c \in DOMAIN db[s]
    /\ active_cid[s] # c
    /\ active_cid' = [active_cid EXCEPT ![s] = c]
    /\ UNCHANGED <<db, annotator, ext>>

\* Lines 85-92: Connect & Fetch, the table exists.  The st.rerun() that
\* follows runs the script again, where line 69 reads the selectbox: that
\* read is SelectCampaign.
ConnectFetch(s, tbl, sql_labs) ==
    /\ tbl \in DOMAIN ext
    /\ UNCHANGED <<annotator, ext>>
    /\ active_cid' = [active_cid EXCEPT ![s] = tbl]
    /\ db' = [db EXCEPT ![s] = Put(db[s], tbl,
                                   initialize_df(ext[tbl], sql_labs, TRUE, tbl))]

\* Lines 86-94: pd.read_sql raises; st.error, nothing is stored.
ConnectFail(s, tbl) ==
    /\ tbl \notin DOMAIN ext
    /\ UNCHANGED vars

\* Lines 101-106: Create CSV Campaign with a name and a file.
CreateCSV(s, name, file, csv_labs) ==
    /\ name # ""
    /\ UNCHANGED <<annotator, ext>>
    /\ active_cid' = [active_cid EXCEPT ![s] = name]
    /\ db' = [db EXCEPT ![s] = Put(db[s], name,
                                   initialize_df(file, csv_labs, FALSE, NoCid))]

\* Mutant: a failed sync undoes the commit.
Submit_Rollback(s, new_label, new_conf, new_notes, now, ok) ==
    /\ active_cid[s] # NoCid
    /\ annotator[s] # ""
    /\ queue(db[s][active_cid[s]].df) # <<>>
    /\ new_label \in Range(db[s][active_cid[s]].labels)
    /\ (~db[s][active_cid[s]].engine => ok)
    /\ LET p   == db[s][active_cid[s]]
           df1 == ApplyAnnotation(p.df, idx(p.df), new_label, new_conf,
                                  new_notes, annotator[s], now)
       IN  /\ db' = IF ok THEN [db EXCEPT ![s][active_cid[s]].df = df1] ELSE db
           /\ ext' = IF p.engine THEN to_sql(df1, p.table_name, ok) ELSE ext
    /\ UNCHANGED <<active_cid, annotator>>

\* Mutant: the label typed freely instead of picked with st.radio.
Submit_FreeLabel(s, new_label, new_conf, new_notes, now, ok) ==
    /\ active_cid[s] # NoCid
    /\ annotator[s] # ""
    /\ queue(db[s][active_cid[s]].df) # <<>>
    /\ (~db[s][active_cid[s]].engine => ok)
    /\ LET p   == db[s][active_cid[s]]
           df1 == ApplyAnnotation(p.df, idx(p.df), new_label, new_conf,
                                  new_notes, annotator[s], now)
       IN  /\ db' = [db EXCEPT ![s][active_cid[s]].df = df1]
           /\ ext' = IF p.engine THEN to_sql(df1, p.table_name, ok) ELSE ext
    /\ UNCHANGED <<active_cid, annotator>>

\* Lines 152-194: the Submit & Sync button of the Annotator tab.  new_label
\* is what st.radio over proj["labels"] returns; ok is whether to_sql
\* returns (it is only called when the campaign has an engine).
Submit(s, new_label, new_conf, new_notes, now, ok) ==
    /\ active_cid[s] # NoCid
    /\ annotator[s] # ""
    /\ queue(proj(s).df) # <<>>
    /\ new_label \in Range(proj(s).labels)
    /\ (~proj(s).engine => ok)
    /\ LET i   == idx(proj(s).df)
           df1 == ApplyAnnotation(proj(s).df, i, new_label, new_conf,
                                  new_notes, annotator[s], now)
       IN  /\ db' = [db EXCEPT ![s][active_cid[s]].df = df1]
           /\ ext' = IF proj(s).engine
                     THEN to_sql(df1, proj(s).table_name, ok)
                     ELSE ext
    /\ UNCHANGED <<active_cid, annotator>>

\* Every label a radio can offer in some campaign.
LabelInputs == UNION {Range(ParseLabels(l)) : l \in LabelSpecs}

\* One interaction of session s, the annotator IDs typed drawn from ids.
Step(s, ids) ==
    \/ \E a \in ids \cup {""} : SetAnnotator(s, a)
    \/ \E c \in ProjectNames \cup TableNames : SelectCampaign(s, c)
    \/ \E tbl \in TableNames, l \in LabelSpecs : ConnectFetch(s, tbl, l)
    \/ \E tbl \in MissingTables : ConnectFail(s, tbl)
    \/ \E name \in ProjectNames, file \in CsvFiles, l \in LabelSpecs :
          CreateCSV(s, name, file, l)
    \/ \E lab \in LabelInputs, c \in Confidences, n \in NotesInputs,
          now \in Times, ok \in BOOLEAN :
          Submit(s, lab, c, n, now, ok)

\* One browser session at work.
Next == Step(1, {"alice"})

Spec == Init /\ [][Next]_vars

\* Two browser sessions on the same external table, one annotator each;
\* both fetch the table with the labels " A,B " and annotate it.
AnnotatorOf(s) == IF s = 1 THEN "alice" ELSE "bob"

SharedLabels == <<" ", "A", ",", "B", " ">>

MultiStep(s) ==
    \/ SetAnnotator(s, AnnotatorOf(s))
    \/ \E tbl \in TableNames : ConnectFetch(s, tbl, SharedLabels)
    \/ \E lab \in LabelInputs, c \in Confidences, n \in NotesInputs,
          now \in Times, ok \in BOOLEAN :
          Submit(s, lab, c, n, now, ok)

MultiNext == \E s \in Sessions : MultiStep(s)

SpecMulti == Init /\ [][MultiNext]_vars

\* ------------------------------------------------------ shared vocabulary

AllSet(row) == \A c \in AnnCols : notna(row[c])

AllUnset(row) == \A c \in AnnCols : isna(row[c])

Joint(row) == AllSet(row) \/ AllUnset(row)

\* The source table carries at least one of the annotation column names.
Carries(src) == src.columns \cap AnnCols # {}

CampaignNames == ProjectNames \cup TableNames

\* Some Submit step of session s.
SubmitStep(s) ==
    \E lab \in LabelInputs, c \in Confidences, n \in NotesInputs,
       now \in Times, ok \in BOOLEAN : Submit(s, lab, c, n, now, ok)

\* The labels every typed spec parses to.
ParsedSpecs == [l \in LabelSpecs |-> ParseLabels(l)]

\* The step is CreateCSV(s, c, file, l), or ConnectFetch(s, c, l).  The
\* conjuncts before the action follow from it: they only spare evaluating
\* it on the steps that plainly are no such step.
CsvStep(s, c, file, l) ==
    /\ active_cid'[s] = c
    /\ c \in DOMAIN db'[s]
    /\ ~db'[s][c].engine
    /\ DOMAIN db'[s][c].df.rows = DOMAIN file.rows
    /\ db'[s][c].labels = ParsedSpecs[l]
    /\ CreateCSV(s, c, file, l)

FetchStep(s, c, l) ==
    /\ active_cid'[s] = c
    /\ c \in DOMAIN db'[s]
    /\ db'[s][c].engine
    /\ db'[s][c].labels = ParsedSpecs[l]
    /\ ConnectFetch(s, c, l)

\* Some step of session s that stores a campaign under the name c.
CreateStep(s, c) ==
    \/ \E file \in CsvFiles, l \in LabelSpecs : CsvStep(s, c, file, l)
    \/ \E l \in LabelSpecs : FetchStep(s, c, l)

\* ------------------------------------------------------------------- C1

\* C1 as stated: in every reachable state every record of every campaign
\* has its five annotation columns all unset or all set, whatever columns
\* the source table carried.
C1_JointAlways ==
    \A s \in Sessions : \A c \in DOMAIN db[s] :
        \A i \in DOMAIN db[s][c].df.rows : Joint(db[s][c].df.rows[i])

\* A step that stores campaign c of session s from a source table that
\* carries annotation columns.
CreatedFromCarrier(s, c) ==
    \/ \E file \in CsvFiles, l \in LabelSpecs :
          Carries(file) /\ CsvStep(s, c, file, l)
    \/ /\ c \in DOMAIN ext
       /\ Carries(ext[c])
       /\ \E l \in LabelSpecs : FetchStep(s, c, l)

\* C1, amended: a record with only some of its five annotation columns set
\* is never produced by initialize_df on a source table without annotation
\* columns, nor by a Submit: after any step such a record either was
\* already there, unchanged, or its campaign was just created from a source
\* table that carries annotation columns.
C1_PartialOnlyCarried ==
    [][\A s \in Sessions : \A c \in DOMAIN db'[s] :
         \A i \in DOMAIN db'[s][c].df.rows :
            ~Joint(db'[s][c].df.rows[i]) =>
               \/ /\ c \in DOMAIN db[s]
                  /\ i \in DOMAIN db[s][c].df.rows
                  /\ db[s][c].df.rows[i] = db'[s][c].df.rows[i]
               \/ CreatedFromCarrier(s, c)]_vars

\* C1 witness: a campaign from a source table without annotation columns,
\* its first record committed (all five set), its second untouched.
C1_Witness ==
    \E c \in DOMAIN db[1] :
        /\ db[1][c].df.columns = {"ID"} \cup AnnCols
        /\ NRows(db[1][c].df) >= 2
        /\ AllSet(db[1][c].df.rows[0])
        /\ AllUnset(db[1][c].df.rows[1])

\* ------------------------------------------------------------------- C2

\* The cells a label of the campaign's label set can leave in a record.
LabelCells(config) == {Some(l) : l \in Range(config.labels)}

\* C2 as stated (its conclusion): no record ever holds a label outside its
\* campaign's label set.
C2_LabelsInSet ==
    \A s \in Sessions : \A c \in DOMAIN db[s] :
        \A i \in DOMAIN db[s][c].df.rows :
            \/ isna(db[s][c].df.rows[i]["label"])
            \/ db[s][c].df.rows[i]["label"] \in LabelCells(db[s][c])

\* C2, amended: a Submit is never rejected for its label and never writes
\* one from outside: the label it writes to the served record is a member
\* of the active campaign's label set, and no other record's label changes.
C2_SubmitWritesMember ==
    [][\A s \in Sessions : SubmitStep(s) =>
          LET c == active_cid[s]
              i == idx(db[s][c].df)
          IN  /\ db'[s][c].df.rows[i]["label"] \in LabelCells(db[s][c])
              /\ \A j \in DOMAIN db[s][c].df.rows \ {i} :
                    db'[s][c].df.rows[j]["label"] = db[s][c].df.rows[j]["label"]]_vars

\* C2 witness: a campaign with the labels A and B in which a Submit has
\* written the label B.
C2_Witness ==
    \E c \in DOMAIN db[1] :
        /\ db[1][c].labels = <<<<"A">>, <<"B">>>>
        /\ NRows(db[1][c].df) >= 1
        /\ db[1][c].df.rows[0]["label"] = Some(<<"B">>)
        /\ db[1][c].df.rows[0]["annotated_by"] = Some("alice")

\* ------------------------------------------------------------------- C3

\* The records of df whose label is unset.
Unset(df) == {i \in DOMAIN df.rows : isna(df.rows[i]["label"])}

\* The selection is right in the current state: the queue is empty exactly
\* when no label is unset, and otherwise idx is the lowest unset index.
C3_Lowest ==
    \A s \in Sessions : \A c \in DOMAIN db[s] :
        LET df == db[s][c].df
        IN  /\ (queue(df) = <<>>) <=> (Unset(df) = {})
            /\ Unset(df) # {} =>
                  /\ idx(df) \in Unset(df)
                  /\ \A j \in Unset(df) : idx(df) <= j

\* The served index of a campaign changes only when that index has been
\* annotated or the campaign has been stored anew.
C3_Stable ==
    \A s \in Sessions : \A c \in DOMAIN db[s] :
        queue(db[s][c].df) # <<>> =>
            \/ /\ c \in DOMAIN db'[s]
               /\ queue(db'[s][c].df) # <<>>
               /\ idx(db'[s][c].df) = idx(db[s][c].df)
               /\ db'[s][c].df.rows[idx(db[s][c].df)]
                     = db[s][c].df.rows[idx(db[s][c].df)]
            \/ /\ c \in DOMAIN db'[s]
               /\ idx(db[s][c].df) \in DOMAIN db'[s][c].df.rows
               /\ notna(db'[s][c].df.rows[idx(db[s][c].df)]["label"])
            \/ CreateStep(s, c)

\* C3: the queue selection serves the lowest index whose label is unset,
\* is empty exactly when no label is unset, and keeps serving the same
\* index until that index is annotated.
C3_FirstUnannotated == C3_Lowest /\ [][C3_Lowest' /\ C3_Stable]_vars

\* C3 witness: record 0 is annotated, record 1 is the lowest unset one and
\* is the one served.
C3_Witness ==
    \E c \in DOMAIN db[1] :
        /\ NRows(db[1][c].df) = 2
        /\ AllSet(db[1][c].df.rows[0])
        /\ isna(db[1][c].df.rows[1]["label"])
        /\ idx(db[1][c].df) = 1

\* ------------------------------------------------------------------- C4

\* What a Submit of session s with a failing sync leaves behind: the five
\* values in the served record, the external table as it was, the queue
\* without the served index.
C4_Kept(s, lab, cf, n, now) ==
    LET c == active_cid[s]
        i == idx(db[s][c].df)
    IN  /\ db'[s][c].df.rows[i]["label"] = Some(lab)
        /\ db'[s][c].df.rows[i]["confidence"] = Some(cf)
        /\ db'[s][c].df.rows[i]["notes"] = Some(n)
        /\ db'[s][c].df.rows[i]["annotated_by"] = Some(annotator[s])
        /\ db'[s][c].df.rows[i]["annotated_at"] = Some(now)
        /\ ext' = ext
        /\ queue(db'[s][c].df) = Tail(queue(db[s][c].df))

\* C4: when the sync that follows a Submit fails, the commit stays.  In
\* every state where a session with an annotator ID has a pending record
\* in a campaign bound to an external table, the Submit whose sync fails
\* can be taken for every label of the campaign, and it leaves the five
\* values in the served record, the external table untouched, and the
\* queue going on from the updated in-memory table.
C4_SyncFailureKeepsCommit ==
    \A s \in Sessions :
        (/\ active_cid[s] # NoCid
         /\ annotator[s] # ""
         /\ proj(s).engine
         /\ queue(proj(s).df) # <<>>) =>
            \A lab \in Range(proj(s).labels), cf \in Confidences,
               n \in NotesInputs, now \in Times :
               ENABLED (/\ Submit(s, lab, cf, n, now, FALSE)
                        /\ C4_Kept(s, lab, cf, n, now))

\* C4 witness: a campaign bound to an external table holds a committed
\* record while the external table has no annotation columns yet: the sync
\* of that commit failed.
C4_Witness ==
    \E c \in DOMAIN db[1] :
        /\ db[1][c].engine
        /\ NRows(db[1][c].df) >= 1
        /\ AllSet(db[1][c].df.rows[0])
        /\ "annotated_by" \notin ext[db[1][c].table_name].columns

\* ------------------------------------------------------------------- C5

\* C5 as stated: creating a campaign under a name that is already
\* registered leaves the registry unchanged, on both creation paths.
C5_DuplicateRejected ==
    [][\A s \in Sessions : \A c \in DOMAIN db[s] :
          CreateStep(s, c) => db'[s] = db[s]]_vars

\* The registry of session s after the step is the one before it with the
\* entry c replaced by config, no entry added or removed.
C5_Replaced(s, c, config) ==
    /\ DOMAIN db'[s] = DOMAIN db[s]
    /\ db'[s][c] = config
    /\ \A o \in DOMAIN db[s] \ {c} : db'[s][o] = db[s][o]

\* The frame initialize_df makes of a source table: its columns and the
\* annotation columns, its rows with every annotation column the source
\* lacks set to None.
C5_Fresh(src, config) ==
    /\ config.df.columns = src.columns \cup AnnCols
    /\ DOMAIN config.df.rows = DOMAIN src.rows
    /\ \A i \in DOMAIN src.rows :
          /\ \A col \in src.columns : config.df.rows[i][col] = src.rows[i][col]
          /\ \A col \in AnnCols \ src.columns : isna(config.df.rows[i][col])

\* C5, amended: creating a campaign under a name that is already registered
\* does not fail on either path: the entry is replaced by a campaign
\* freshly initialized from the new source table and label spec (the old
\* dataset, label set and annotations are gone) and every other campaign
\* is unchanged.
C5_DuplicateReplaces ==
    [][\A s \in Sessions : \A c \in DOMAIN db[s] :
          /\ \A file \in CsvFiles, l \in LabelSpecs :
                CsvStep(s, c, file, l) =>
                   /\ C5_Replaced(s, c, db'[s][c])
                   /\ C5_Fresh(file, db'[s][c])
                   /\ db'[s][c].labels = ParseLabels(l)
                   /\ ~db'[s][c].engine
          /\ \A l \in LabelSpecs :
                FetchStep(s, c, l) =>
                   /\ C5_Replaced(s, c, db'[s][c])
                   /\ C5_Fresh(ext[c], db'[s][c])
                   /\ db'[s][c].labels = ParseLabels(l)
                   /\ db'[s][c].engine]_vars

\* C5 witness: the external table t holds a commit of the label A, synced
\* from the campaign t when its label set held A, and the registry now
\* holds under t a campaign with the label set of the empty spec: the
\* table has been fetched again under the registered name.
C5_Witness ==
    /\ "t" \in DOMAIN db[1]
    /\ db[1]["t"].engine
    /\ db[1]["t"].labels = <<<<>>>>
    /\ "label" \in ext["t"].columns
    /\ ext["t"].rows[0]["label"] = Some(<<"A">>)
    /\ ext["t"].rows[0]["annotated_by"] = Some("alice")

\* ------------------------------------------------------------------- C6

\* C6 as stated (its instance): creating a campaign with an empty label
\* spec fails and registers nothing, on either creation path.
C6_EmptySpecRejected ==
    [][\A s \in Sessions : \A c \in CampaignNames :
          (\/ \E file \in CsvFiles : CsvStep(s, c, file, <<>>)
           \/ FetchStep(s, c, <<>>)) => db' = db]_vars

Commas(l) == Cardinality({k \in 1..Len(l) : l[k] = ","})

\* A label as split and strip leave it: no comma, no blank at either end.
C6_Normal(label) ==
    /\ \A k \in 1..Len(label) : label[k] # ","
    /\ label # <<>> => label[1] # " " /\ label[Len(label)] # " "

\* Every registered label list has at least one label, each normalized.
C6_NonEmpty ==
    \A s \in Sessions : \A c \in DOMAIN db[s] :
        /\ Len(db[s][c].labels) >= 1
        /\ \A k \in 1..Len(db[s][c].labels) : C6_Normal(db[s][c].labels[k])

\* Every str of at most MaxSpecLen characters over "A", "," and " ".
SpecStrings == UNION {[1..n -> {"A", ",", " "}] : n \in 0..MaxSpecLen}

\* Parsing any such spec gives one label more than it has commas, each
\* label normalized.
C6_ParseAll ==
    \A l \in SpecStrings :
        /\ Len(ParseLabels(l)) = Commas(l) + 1
        /\ \A k \in 1..Len(ParseLabels(l)) : C6_Normal(ParseLabels(l)[k])

\* C6, amended: creation never fails on the label spec.  The spec is split
\* on commas and each piece trimmed, which gives one label more than the
\* spec has commas, so never an empty list; an empty spec registers the
\* campaign with the one label "" (the empty string).  Hence every
\* registered campaign has at least one label, possibly an empty one.
C6_LabelsNormalized ==
    [][/\ C6_NonEmpty'
       /\ \A s \in Sessions : \A c \in CampaignNames : \A l \in LabelSpecs :
             (\/ \E file \in CsvFiles : CsvStep(s, c, file, l)
              \/ FetchStep(s, c, l)) =>
                /\ c \in DOMAIN db'[s]
                /\ Len(db'[s][c].labels) = Commas(l) + 1
                /\ (l = <<>> => db'[s][c].labels = <<<<>>>>)
                /\ C6_ParseAll]_vars

\* C6 witness: a campaign registered from the empty label spec, its label
\* list the single empty label, and a record committed with that label.
C6_Witness ==
    \E c \in DOMAIN db[1] :
        /\ db[1][c].labels = <<<<>>>>
        /\ NRows(db[1][c].df) >= 1
        /\ db[1][c].df.rows[0]["label"] = Some(<<>>)

\* ------------------------------------------------------------------- C7

\* Record i of campaign c of session s still exists after the step and its
\* label is set.
C7_StillSet(s, c, i) ==
    /\ c \in DOMAIN db'[s]
    /\ i \in DOMAIN db'[s][c].df.rows
    /\ notna(db'[s][c].df.rows[i]["label"])

\* C7 as stated: once the record at an index of a named campaign has been
\* annotated (a commit has set its label with the other four columns), no
\* operation, campaign creation included, makes its label unset again.
C7_NeverUnset ==
    [][\A s \in Sessions : \A c \in DOMAIN db[s] :
          \A i \in DOMAIN db[s][c].df.rows :
             AllSet(db[s][c].df.rows[i]) => C7_StillSet(s, c, i)]_vars

\* C7, amended: once the record at an index of a named campaign has its
\* label set, it stays set through every Submit (synced or not), campaign
\* selection, annotator change and creation of a campaign under another
\* name; only creating a campaign under the same name, which replaces the
\* table, can leave that index unset or absent.
C7_UnsetOnlyByRecreation ==
    [][\A s \in Sessions : \A c \in DOMAIN db[s] :
          \A i \in DOMAIN db[s][c].df.rows :
             notna(db[s][c].df.rows[i]["label"]) =>
                C7_StillSet(s, c, i) \/ CreateStep(s, c)]_vars

\* C7 witness: record 0 of campaign t was committed, and afterwards another
\* campaign p was created and its record 0 committed; t's is still set.
C7_Witness ==
    /\ DOMAIN db[1] = {"t", "p"}
    /\ NRows(db[1]["t"].df) >= 1
    /\ NRows(db[1]["p"].df) >= 1
    /\ AllSet(db[1]["t"].df.rows[0])
    /\ AllSet(db[1]["p"].df.rows[0])

\* ------------------------------------------------------------------- C8

\* C8: a Submit changes only the five annotation columns of the served
\* record.  The campaign keeps its rows and columns, its labels and its
\* binding; every source column of every row, every other record and every
\* other campaign, of this and of any other session, is as before.
C8_SubmitFrame ==
    [][\A s \in Sessions : SubmitStep(s) =>
          LET c   == active_cid[s]
              old == db[s][c]
              new == db'[s][c]
              i   == idx(old.df)
          IN  /\ DOMAIN db'[s] = DOMAIN db[s]
              /\ \A o \in DOMAIN db[s] \ {c} : db'[s][o] = db[s][o]
              /\ \A o \in Sessions \ {s} : db'[o] = db[o]
              /\ new.labels = old.labels
              /\ new.engine = old.engine
              /\ new.table_name = old.table_name
              /\ new.df.columns = old.df.columns
              /\ DOMAIN new.df.rows = DOMAIN old.df.rows
              /\ \A j \in DOMAIN old.df.rows \ {i} : new.df.rows[j] = old.df.rows[j]
              /\ \A col \in old.df.columns \ AnnCols :
                    new.df.rows[i][col] = old.df.rows[i][col]
              /\ AllSet(new.df.rows[i])]_vars

\* C8 witness: two campaigns; in t record 0 is committed with its source
\* value in place and record 1 untouched, p is untouched.
C8_Witness ==
    /\ DOMAIN db[1] = {"t", "p"}
    /\ db[1]["t"].df.columns = {"ID"} \cup AnnCols
    /\ NRows(db[1]["t"].df) = 2
    /\ AllSet(db[1]["t"].df.rows[0])
    /\ db[1]["t"].df.rows[0]["ID"] = Some(1)
    /\ AllUnset(db[1]["t"].df.rows[1])
    /\ NRows(db[1]["p"].df) = 2
    /\ \A j \in DOMAIN db[1]["p"].df.rows : AllUnset(db[1]["p"].df.rows[j])

\* ------------------------------------------------------------------- C9

\* What a Submit of session s whose sync succeeds leaves behind: the
\* external table is the session's whole frame, so its record at the served
\* index holds the five values just submitted, whatever another session had
\* synced there; no other session's in-memory state is touched.
C9_LastWrite(s, lab, cf, n, now) ==
    LET c == active_cid[s]
        i == idx(db[s][c].df)
        t == db[s][c].table_name
    IN  /\ ext'[t] = db'[s][c].df
        /\ ext'[t].rows[i]["label"] = Some(lab)
        /\ ext'[t].rows[i]["confidence"] = Some(cf)
        /\ ext'[t].rows[i]["notes"] = Some(n)
        /\ ext'[t].rows[i]["annotated_by"] = Some(annotator[s])
        /\ ext'[t].rows[i]["annotated_at"] = Some(now)
        /\ \A o \in Sessions \ {s} : db'[o] = db[o]

\* C9: the queue takes no lease.  Whenever a session with an annotator ID
\* has a pending record in a campaign bound to an external table, its
\* Submit can be taken for every label, whatever the other session has
\* been served, committed or synced; it is not rejected, and when its sync
\* succeeds the external table holds this session's five values at the
\* served index: the last writer wins.
C9_LastWriteWins ==
    \A s \in Sessions :
        (/\ active_cid[s] # NoCid
         /\ annotator[s] # ""
         /\ proj(s).engine
         /\ queue(proj(s).df) # <<>>) =>
            \A lab \in Range(proj(s).labels), cf \in Confidences,
               n \in NotesInputs, now \in Times :
               ENABLED (/\ Submit(s, lab, cf, n, now, TRUE)
                        /\ C9_LastWrite(s, lab, cf, n, now))

\* C9 witness: alice's commit of index 0 is in the external table; bob's
\* session, which fetched the table before, is served the same index 0, and
\* his Submit can be taken and puts his commit in place of hers.
C9_Witness ==
    /\ "annotated_by" \in ext["t"].columns
    /\ ext["t"].rows[0]["annotated_by"] = Some("alice")
    /\ active_cid[2] = "t"
    /\ annotator[2] = "bob"
    /\ db[2]["t"].engine
    /\ idx(db[1]["t"].df) = 1
    /\ idx(db[2]["t"].df) = 0
    /\ ENABLED (/\ Submit(2, <<"B">>, ConfDefault, "", "09:00", TRUE)
                /\ ext'["t"].rows[0]["annotated_by"] = Some("bob"))

\* ------------------------------------------------------------------ C10

\* C10: with an annotator ID, each Submit labels exactly the record the
\* queue served, so the annotated count goes up by one and the pending
\* count and the queue go down by one; the pending count is zero exactly
\* when the queue is empty, and from an empty queue (the completion state)
\* no Submit is taken.  A campaign with N unset records is therefore
\* complete after exactly N commits.
C10_OnePerCommit ==
    [][\A s \in Sessions :
          /\ SubmitStep(s) =>
                LET old == db[s][active_cid[s]].df
                    new == db'[s][active_cid[s]].df
                IN  /\ annotator[s] # ""
                    /\ queue(old) # <<>>
                    /\ isna(old.rows[idx(old)]["label"])
                    /\ notna(new.rows[idx(old)]["label"])
                    /\ total(new) = total(old)
                    /\ done(new) = done(old) + 1
                    /\ remaining(new) = remaining(old) - 1
                    /\ Len(queue(new)) = Len(queue(old)) - 1
          /\ \A c \in DOMAIN db'[s] :
                /\ remaining(db'[s][c].df) = Len(queue(db'[s][c].df))
                /\ (remaining(db'[s][c].df) = 0) <=> (queue(db'[s][c].df) = <<>>)]_vars

\* C10 witness: a campaign of two unset records after its two commits: the
\* queue is empty, nothing is pending, and no Submit can be taken.
C10_Witness ==
    /\ active_cid[1] # NoCid
    /\ annotator[1] = "alice"
    /\ proj(1).df.columns = {"ID"} \cup AnnCols
    /\ total(proj(1).df) = 2
    /\ done(proj(1).df) = 2
    /\ remaining(proj(1).df) = 0
    /\ queue(proj(1).df) = <<>>
    /\ \A i \in DOMAIN proj(1).df.rows : AllSet(proj(1).df.rows[i])
    /\ ~ENABLED SubmitStep(1)

====
